---- MODULE Spec2Model ----
(***************************************************************************)
(* The GCE Instance task of upup/pkg/fi/cloudup/gcetasks/instance.go:      *)
(* Find, the delta run method, mapToGCE, RenderGCE with waitCompletion,    *)
(* RenderTerraform, and the GCE backend the task talks to (Spec, and       *)
(* FairSpec for the wait); and runs of the identifier and scope utilities  *)
(* and of isZero on bounded inputs (UtilSpec).                             *)
(*                                                                         *)
(* Representation.  A Go pointer, slice or map that may be nil is a        *)
(* sequence of length 0 (nil) or 1 (the value).  A string that the code    *)
(* splits at "/" (URLs, image specs) is the sequence of its "/"-separated  *)
(* segments; any other string is a TLA+ string.  A Go map is the set of    *)
(* its <<key, value>> entries, keys unique.                                *)
(***************************************************************************)
EXTENDS Integers, Sequences, FiniteSets, TLC

\* ------------------------------------------------------------------ bounds

\* Status queries counted per waitCompletion; the counter saturates here.
MaxPolls == 2

\* Calls in one run of the scope utilities, each applied to the previous result.
MaxCalls == 2

\* ------------------------------------------------------------- the state

VARIABLES
  gceInstance,   \* the backend's instance of this Name and Zone, or Nil
  gceDisks,      \* the backend's disks: [Name, SourceImage]
  gceFpCount,    \* fingerprints the backend has handed out
  gceOps,        \* per pass, the zone operation its SetMetadata started
  pc,            \* per pass, where it is
  desired,       \* per pass, the task e
  actualOf,      \* per pass, the actual a that Find returned
  changesOf,     \* per pass, the diff changes
  result,        \* per pass, the error the pass ended with (NoError: nil)
  payload,       \* per pass, what mapToGCE built, or Nil
  log,           \* per pass, the backend calls issued, except status queries
  polls,         \* per pass, the status queries issued (saturating)
  pollTick,      \* per pass, whether the number of status queries issued is odd
  lastStatus,    \* per pass, the answer to the last status query
  waitResult,    \* per pass, how waitCompletion ended
  inserted,      \* per pass, the body of its Insert call, or Nil
  metadataSent,  \* per pass, the body of its SetMetadata call, or Nil
  getResp,       \* per pass, what Instances.Get answered in Find
  replaced,      \* per pass, the fingerprint its accepted write replaced
  findResp,      \* per pass, what Addresses.List and Disks.Get answered in Find
  findLocal,     \* per pass, what a running Find holds: r and addr, or Nil
  target,        \* the render target of the context: "gce" or "terraform"
  rendered,      \* per pass, the template RenderTerraform handed to the target
  fnArg,         \* the input of a run of the identifier and scope utilities
  fnTrace        \* the calls of that run: each applied to the previous result

vars ==
  << gceInstance, gceDisks, gceFpCount, gceOps, pc, desired, actualOf, changesOf, result,
     payload, log, polls, pollTick, lastStatus, waitResult, inserted, metadataSent, getResp,
     replaced, findResp, findLocal, target, rendered, fnArg, fnTrace >>

backendVars == <<gceInstance, gceDisks, gceFpCount, gceOps>>

\* What no step of a pass changes: the context's target and the utility run.
fixedVars == <<target, fnArg, fnTrace>>

\* The state of the passes, which a run of the utilities leaves alone.
passVars ==
  << pc, desired, actualOf, changesOf, result, payload, log, polls, pollTick, lastStatus, waitResult,
     inserted, metadataSent, getResp, replaced, findResp, findLocal, target, rendered >>

\* ------------------------------------------------------- optional values

Nil == <<>>

Some(v) == <<v>>

IsNil(o) == Len(o) = 0

Val(o) == o[1]

\* fi.BoolValue: a nil *bool reads as false.
BoolValue(o) == IF IsNil(o) THEN FALSE ELSE Val(o)

\* The entries of a map that may be nil (ranging over a nil map visits nothing).
Entries(m) == IF IsNil(m) THEN {} ELSE Val(m)

\* The elements of a sequence.
Range(seq) == {seq[k] : k \in DOMAIN seq}

\* The orders in which a range over a Go map (or a backend list) may visit S.
Orderings(S) ==
  {s \in [1..Cardinality(S) -> S] : \A i, j \in DOMAIN s : i # j => s[i] # s[j]}

\* The empty string, as a split string.
EmptyStr == <<"">>

\* ------------------------------------------------- identifiers and scopes

\* cloud.Project of the GCECloud / TerraformTarget.
Project == "proj"

ComputePrefix == <<"https:", "", "www.googleapis.com", "compute", "v1", "projects">>

lastComponent(s) == s[Len(s)]

BuildMachineTypeURL(project, zone, name) ==
  ComputePrefix \o <<project, "zones", zone, "machineTypes", name>>

\* strings.Split(nameSpec, "/") has one or two tokens; anything else is glog.Exitf.
ImageSpecOK(nameSpec) == Len(nameSpec) \in {1, 2}

BuildImageURL(defaultProject, nameSpec) ==
  LET tokens == nameSpec
      project == IF Len(tokens) = 2 THEN tokens[1] ELSE defaultProject
      name == IF Len(tokens) = 2 THEN tokens[2] ELSE tokens[1]
  IN  ComputePrefix \o <<project, "global", "images", name>>

\* gce.ParseGoogleCloudURL: a canonical URL is the compute prefix, the project,
\* then global/<type>/<name> or zones/<zone>/<type>/<name>.
ParseGoogleCloudURL(u) ==
  LET n == Len(ComputePrefix)
      wellFormed ==
        /\ Len(u) \in {n + 4, n + 5}
        /\ SubSeq(u, 1, n) = ComputePrefix
        /\ IF Len(u) = n + 4 THEN u[n + 2] = "global" ELSE u[n + 2] \in {"zones", "regions"}
        /\ \A k \in (n + 1)..Len(u) : u[k] # ""
  IN  IF wellFormed
        THEN [err |-> FALSE, Project |-> u[n + 1], Name |-> u[Len(u)]]
        ELSE [err |-> TRUE, Project |-> "", Name |-> ""]

\* A shortening that drops the project of every URL.
ShortenImageURLBareName(defaultProject, imageURL) ==
  LET u == ParseGoogleCloudURL(imageURL)
  IN  IF u.err THEN [err |-> TRUE, spec |-> EmptyStr] ELSE [err |-> FALSE, spec |-> <<u.Name>>]

ShortenImageURL(defaultProject, imageURL) ==
  LET u == ParseGoogleCloudURL(imageURL)
  IN  IF u.err THEN [err |-> TRUE, spec |-> EmptyStr]
      ELSE IF u.Project = defaultProject THEN [err |-> FALSE, spec |-> <<u.Name>>]
      ELSE [err |-> FALSE, spec |-> <<u.Project, u.Name>>]

\* Network.URL / PersistentDisk.URL of the sibling tasks.
NetworkURL(network, project) ==
  ComputePrefix \o <<project, "global", "networks", network.Name>>

DiskURL(disk, project) ==
  ComputePrefix \o <<project, "zones", Val(disk.Zone), "disks", disk.Name>>

scopeAliases ==
  { <<"storage-ro", "https://www.googleapis.com/auth/devstorage.read_only">>,
    <<"storage-rw", "https://www.googleapis.com/auth/devstorage.read_write">>,
    <<"compute-ro", "https://www.googleapis.com/auth/compute.read_only">>,
    <<"compute-rw", "https://www.googleapis.com/auth/compute">>,
    <<"monitoring", "https://www.googleapis.com/auth/monitoring">>,
    <<"monitoring-write", "https://www.googleapis.com/auth/monitoring.write">>,
    <<"logging-write", "https://www.googleapis.com/auth/logging.write">> }

\* A switch that lacks the case of "logging-write".
expandScopeAliasNoLogging(s) ==
  LET found == {a \in scopeAliases : a[1] = s /\ s # "logging-write"}
  IN  IF found # {} THEN (CHOOSE a \in found : TRUE)[2] ELSE s

expandScopeAlias(s) ==
  CASE s = "storage-ro" -> "https://www.googleapis.com/auth/devstorage.read_only"
    [] s = "storage-rw" -> "https://www.googleapis.com/auth/devstorage.read_write"
    [] s = "compute-ro" -> "https://www.googleapis.com/auth/compute.read_only"
    [] s = "compute-rw" -> "https://www.googleapis.com/auth/compute"
    [] s = "monitoring" -> "https://www.googleapis.com/auth/monitoring"
    [] s = "monitoring-write" -> "https://www.googleapis.com/auth/monitoring.write"
    [] s = "logging-write" -> "https://www.googleapis.com/auth/logging.write"
    [] OTHER -> s

scopeToLongForm(s) ==
  LET found == {p \in scopeAliases : p[1] = s}
  IN  IF found # {} THEN (CHOOSE p \in found : TRUE)[2] ELSE s

\* A shortening that never finds a match.
scopeShortFormsNoMatch(s) == {s}

\* The mnemonics a range over scopeAliases may return for s (the first match in
\* an unspecified order), or s itself when no value matches.
scopeShortForms(s) ==
  LET found == {p[1] : p \in {q \in scopeAliases : q[2] = s}}
  IN  IF found # {} THEN found ELSE {s}

scopeToShortForm(s) == CHOOSE k \in scopeShortForms(s) : TRUE

\* ------------------------------------------------------ the Instance task

\* &Instance{}: every field unset.
ZeroInstance ==
  [ Name |-> Nil, Network |-> Nil, Tags |-> Nil, Preemptible |-> Nil, Image |-> Nil,
    Disks |-> Nil, CanIPForward |-> Nil, IPAddress |-> Nil, Subnet |-> Nil,
    Scopes |-> Nil, Metadata |-> Nil, Zone |-> Nil, MachineType |-> Nil,
    metadataFingerprint |-> "" ]

\* A comparison by length, which takes an empty slice or map for a nil one.
isZeroByLength(i) ==
  \A f \in DOMAIN i :
    \/ i[f] = ZeroInstance[f]
    \/ f \in {"Tags", "Scopes"} /\ Len(Val(i[f])) = 0
    \/ f \in {"Disks", "Metadata"} /\ Cardinality(Val(i[f])) = 0

\* reflect.DeepEqual(&Instance{}, i)
isZero(i) == i = ZeroInstance

\* fi.NewStringResource / fi.ResourceAsString: a content source renders to its
\* string, or fails to render.
NewStringResource(v) == [kind |-> "string", value |-> v]

BrokenResource == [kind |-> "broken", value |-> ""]

ResourceAsString(r) ==
  IF r.kind = "string" THEN [err |-> FALSE, v |-> r.value] ELSE [err |-> TRUE, v |-> ""]

\* The IP-address references of the model, and the two address resolvers.
IPAddressRefs ==
  [Name : {"ip1"}, Address : {Nil, Some(<<"10.0.0.1">>), Some(<<"10.0.0.9">>)}]

\* A resolver that answers with a reference expression, created or not.
GCEResolverSymbolic ==
  [ ip \in IPAddressRefs |->
      [err |-> FALSE, addr |-> Some(<<"${google_compute_address." \o ip.Name \o ".address}">>)] ]

\* RenderGCE's resolver: the address of the reference, nil until it is created.
GCEResolver == [ip \in IPAddressRefs |-> [err |-> FALSE, addr |-> ip.Address]]

\* RenderTerraform's resolver: a reference expression to the address resource.
TerraformResolver ==
  [ ip \in IPAddressRefs |->
      [err |-> FALSE, addr |-> Some(<<"${google_compute_address." \o ip.Name \o ".address}">>)] ]

NoError == <<>>

NoPayload ==
  [ CanIpForward |-> FALSE, Disks |-> <<>>, MachineType |-> EmptyStr,
    Metadata |-> [Items |-> <<>>, Fingerprint |-> ""], Name |-> "",
    NetworkInterfaces |-> <<>>,
    Scheduling |-> [AutomaticRestart |-> FALSE, OnHostMaintenance |-> "", Preemptible |-> FALSE],
    ServiceAccounts |-> <<>>, Tags |-> Nil, Zone |-> EmptyStr ]

\* The boot disk mapToGCE puts first in the payload.
BootDisk(project, image) ==
  [ InitializeParams |-> Some([SourceImage |-> BuildImageURL(project, image)]),
    Boot |-> TRUE, DeviceName |-> "persistent-disks-0", Index |-> 0,
    AutoDelete |-> TRUE, Mode |-> "READ_WRITE", Type |-> "PERSISTENT",
    Source |-> EmptyStr ]

\* The entry mapToGCE appends for one item <<name, disk>> of e.Disks.
DataDisk(project, entry) ==
  [ InitializeParams |-> Nil, Boot |-> FALSE, DeviceName |-> entry[1], Index |-> 0,
    AutoDelete |-> FALSE, Mode |-> "READ_WRITE", Type |-> "",
    Source |-> DiskURL(entry[2], project) ]

\* mapToGCE(project, ipAddressResolver).  diskOrder and metadataOrder are the
\* orders in which the two ranges over maps visit e.Disks and e.Metadata.
\* The result is the payload, or an error, or the process exit of BuildImageURL.
mapToGCE(e, project, ipAddressResolver, diskOrder, metadataOrder) ==
  LET zone == Val(e.Zone)
      scheduling ==
        IF BoolValue(e.Preemptible)
          THEN [AutomaticRestart |-> FALSE, OnHostMaintenance |-> "TERMINATE", Preemptible |-> TRUE]
          ELSE [AutomaticRestart |-> TRUE, OnHostMaintenance |-> "MIGRATE", Preemptible |-> FALSE]
      disks ==
        <<BootDisk(project, Val(e.Image))>>
          \o [n \in 1..Len(diskOrder) |-> DataDisk(project, diskOrder[n])]
      tags == IF ~IsNil(e.Tags) THEN Some([Items |-> Val(e.Tags)]) ELSE Nil
      resolved == ipAddressResolver[Val(e.IPAddress)]
      networkInterface ==
        [ AccessConfigs |-> <<[NatIP |-> Val(resolved.addr), Type |-> "ONE_TO_ONE_NAT"]>>,
          Network |-> NetworkURL(Val(e.Network), project),
          Subnetwork |-> IF ~IsNil(e.Subnet) THEN Val(e.Subnet).Name ELSE "" ]
      networkInterfaces == IF ~IsNil(e.IPAddress) THEN <<networkInterface>> ELSE <<>>
      serviceAccounts ==
        IF ~IsNil(e.Scopes)
          THEN << [ Email |-> "default",
                    Scopes |-> [n \in 1..Len(Val(e.Scopes)) |-> expandScopeAlias(Val(e.Scopes)[n])] ] >>
          ELSE <<>>
      metadataItems ==
        [ n \in 1..Len(metadataOrder) |->
            [ Key |-> metadataOrder[n][1],
              Value |-> Some(ResourceAsString(metadataOrder[n][2]).v) ] ]
      i ==
        [ CanIpForward |-> Val(e.CanIPForward), Disks |-> disks,
          MachineType |-> BuildMachineTypeURL(project, zone, Val(e.MachineType)),
          Metadata |-> [Items |-> metadataItems, Fingerprint |-> ""],
          Name |-> Val(e.Name), NetworkInterfaces |-> networkInterfaces,
          Scheduling |-> scheduling, ServiceAccounts |-> serviceAccounts,
          Tags |-> tags, Zone |-> EmptyStr ]
  IN  IF ~ImageSpecOK(Val(e.Image))
        THEN [exit |-> TRUE, err |-> <<"Cannot parse image spec">>, i |-> NoPayload]
      ELSE IF ~IsNil(e.IPAddress) /\ resolved.err
        THEN [exit |-> FALSE, err |-> <<"unable to resolve IP for instance">>, i |-> NoPayload]
      ELSE IF ~IsNil(e.IPAddress) /\ IsNil(resolved.addr)
        THEN [exit |-> FALSE, err |-> <<"instance IP address has not yet been created">>, i |-> NoPayload]
      ELSE IF \E n \in 1..Len(metadataOrder) : ResourceAsString(metadataOrder[n][2]).err
        THEN [exit |-> FALSE, err |-> <<"error rendering Instance metadata">>, i |-> NoPayload]
      ELSE [exit |-> FALSE, err |-> NoError, i |-> i]

\* The scopes of all service accounts, each shortened, in order.
RECURSIVE ShortScopes(_)
ShortScopes(serviceAccounts) ==
  IF Len(serviceAccounts) = 0 THEN <<>>
  ELSE [n \in 1..Len(serviceAccounts[1].Scopes) |-> scopeToShortForm(serviceAccounts[1].Scopes[n])]
         \o ShortScopes(Tail(serviceAccounts))

\* The name Find asks Disks.Get for: the last component of the boot disk's source.
FindDiskName(r) == lastComponent(r.Disks[1].Source)

\* Whether Find looks the instance's NAT address up in the address list.
FindHasNatIP(r) ==
  /\ Len(r.NetworkInterfaces) # 0
  /\ Len(r.NetworkInterfaces[1].AccessConfigs) # 0
  /\ r.NetworkInterfaces[1].AccessConfigs[1].NatIP # EmptyStr

\* Find's handling of a failed Instances.Get that takes every error for
\* not-found.
FindGetFailedAllNotFound(get) ==
  [actual |-> Nil, err |-> NoError, queries |-> <<"Instances.Get">>]

\* Find's handling of a failed Instances.Get without the IsNotFound test: an
\* absent instance is a listing error.
FindGetFailedNoNotFound(get) ==
  [actual |-> Nil, err |-> <<"error listing Instances">>, queries |-> <<"Instances.Get">>]

\* Find's handling of a failed Instances.Get: not-found is (nil, nil), any other
\* error is returned.
FindGetFailed(get) ==
  IF get.err = "notFound"
    THEN [actual |-> Nil, err |-> NoError, queries |-> <<"Instances.Get">>]
    ELSE [actual |-> Nil, err |-> <<"error listing Instances">>, queries |-> <<"Instances.Get">>]

\* Find.  get, addrList and diskGet are the backend's answers to Instances.Get,
\* Addresses.List and Disks.Get (the last two are read only if Find asks).
\* The result is (actual, err) and the backend queries Find issued, in order.
Find(e, project, get, addrList, diskGet) ==
  LET r == get.r
      hasNat == FindHasNatIP(r)
      hasDisks == Len(r.Disks) # 0
      image == ShortenImageURL(project, diskGet.SourceImage)
      q1 == <<"Instances.Get">>
      q2 == q1 \o (IF hasNat THEN <<"Addresses.List">> ELSE <<>>)
      q3 == q2 \o (IF hasDisks THEN <<"Disks.Get">> ELSE <<>>)
      dataDisks ==
        { <<r.Disks[k].DeviceName, [Name |-> ParseGoogleCloudURL(r.Disks[k].Source).Name, Zone |-> Nil]>> :
            k \in {j \in 2..Len(r.Disks) :
                     \A l \in (j + 1)..Len(r.Disks) : r.Disks[l].DeviceName # r.Disks[j].DeviceName} }
      items == Val(r.Metadata).Items
      metadata ==
        { <<items[k].Key, NewStringResource(Val(items[k].Value))>> :
            k \in {j \in 1..Len(items) :
                     /\ ~IsNil(items[j].Value)
                     /\ \A l \in (j + 1)..Len(items) :
                          IsNil(items[l].Value) \/ items[l].Key # items[j].Key} }
      scopes == ShortScopes(r.ServiceAccounts)
      actual ==
        [ Name |-> Some(r.Name),
          Tags |-> IF Len(r.Tags.Items) # 0 THEN Some(r.Tags.Items) ELSE Nil,
          Zone |-> Some(lastComponent(r.Zone)),
          MachineType |-> Some(lastComponent(r.MachineType)),
          CanIPForward |-> Some(r.CanIpForward),
          Preemptible |-> IF ~IsNil(r.Scheduling) THEN Some(Val(r.Scheduling).Preemptible) ELSE Nil,
          Network |->
            IF Len(r.NetworkInterfaces) # 0
              THEN Some([Name |-> lastComponent(r.NetworkInterfaces[1].Network)])
              ELSE Nil,
          IPAddress |->
            IF hasNat THEN Some([Name |-> addrList.Items[1].Name, Address |-> Nil]) ELSE Nil,
          Subnet |-> Nil,
          Scopes |-> IF Len(scopes) # 0 THEN Some(scopes) ELSE Nil,
          Disks |-> Some(dataDisks),
          Image |-> IF hasDisks THEN Some(image.spec) ELSE Nil,
          Metadata |-> IF ~IsNil(r.Metadata) THEN Some(metadata) ELSE Nil,
          metadataFingerprint |-> IF ~IsNil(r.Metadata) THEN Val(r.Metadata).Fingerprint ELSE "" ]
      fail(msg, q) == [actual |-> Nil, err |-> <<msg>>, queries |-> q]
  IN  IF get.err # "" THEN FindGetFailed(get)
      ELSE IF hasNat /\ addrList.err THEN fail("error querying for address", q2)
      ELSE IF hasNat /\ Len(addrList.Items) = 0 THEN fail("address not found", q2)
      ELSE IF hasDisks /\ diskGet.err = "notFound" THEN fail("disk not found", q3)
      ELSE IF hasDisks /\ diskGet.err # "" THEN fail("error querying for disk", q3)
      ELSE IF hasDisks /\ image.err THEN fail("error parsing source image URL", q3)
      ELSE IF \E k \in 2..Len(r.Disks) : ParseGoogleCloudURL(r.Disks[k].Source).err
        THEN fail("unable to parse disk source URL", q3)
      ELSE [actual |-> Some(actual), err |-> NoError, queries |-> q3]

\* A CheckChanges that rejects a diff with a field other than Metadata.
CheckChangesMetadataOnly(a, e, changes) ==
  IF [changes EXCEPT !.Metadata = Nil] # ZeroInstance
    THEN <<"unsupported change">> ELSE NoError

\* CheckChanges accepts every diff.
CheckChanges(a, e, changes) == NoError

\* Equality of two references to sibling tasks: by the name they compare with.
SameRef(x, y) == IsNil(x) = IsNil(y) /\ (IsNil(x) \/ Val(x).Name = Val(y).Name)

SameDisks(x, y) ==
  /\ IsNil(x) = IsNil(y)
  /\ IsNil(x) \/ {<<d[1], d[2].Name>> : d \in Val(x)} = {<<d[1], d[2].Name>> : d \in Val(y)}

\* The diff of the delta run method: a field equal in desired and actual is left
\* unset, a differing field holds the desired value; against no actual every
\* field holds the desired value.  The fingerprint is no part of a diff.
BuildChanges(a, e) ==
  IF IsNil(a) THEN [e EXCEPT !.metadataFingerprint = ""]
  ELSE
    LET act == Val(a)
        pick(same, v) == IF same THEN Nil ELSE v
    IN  [ Name |-> pick(act.Name = e.Name, e.Name),
          Network |-> pick(SameRef(act.Network, e.Network), e.Network),
          Tags |-> pick(act.Tags = e.Tags, e.Tags),
          Preemptible |-> pick(act.Preemptible = e.Preemptible, e.Preemptible),
          Image |-> pick(act.Image = e.Image, e.Image),
          Disks |-> pick(SameDisks(act.Disks, e.Disks), e.Disks),
          CanIPForward |-> pick(act.CanIPForward = e.CanIPForward, e.CanIPForward),
          IPAddress |-> pick(SameRef(act.IPAddress, e.IPAddress), e.IPAddress),
          Subnet |-> pick(SameRef(act.Subnet, e.Subnet), e.Subnet),
          Scopes |-> pick(act.Scopes = e.Scopes, e.Scopes),
          Metadata |-> pick(act.Metadata = e.Metadata, e.Metadata),
          Zone |-> pick(act.Zone = e.Zone, e.Zone),
          MachineType |-> pick(act.MachineType = e.MachineType, e.MachineType),
          metadataFingerprint |-> "" ]

\* The render method the context dispatches to for its target.
RenderMethod(t) == IF t = "terraform" THEN "RenderTerraform" ELSE "RenderGCE"

\* RenderGCE without the create branch.
RenderGCECallNoCreate(a, changes) ==
  IF ~IsNil(a) /\ ~IsNil(changes.Metadata) THEN "Instances.SetMetadata" ELSE "none"

\* The backend call RenderGCE makes once the payload is mapped: an insert when
\* there is no actual, a metadata update when the diff has metadata, else none.
RenderGCECall(a, changes) ==
  IF IsNil(a) THEN "Instances.Insert"
  ELSE IF ~IsNil(changes.Metadata) THEN "Instances.SetMetadata"
  ELSE "none"

\* A metadata update that takes the backend's current fingerprint instead of the
\* one Find captured.
MetadataUpdateFresh(i, a) ==
  [ i.Metadata EXCEPT !.Fingerprint =
      IF ~IsNil(gceInstance) /\ ~IsNil(Val(gceInstance).Metadata)
        THEN Val(Val(gceInstance).Metadata).Fingerprint ELSE "" ]

\* The metadata update RenderGCE submits: the mapped metadata carrying the
\* fingerprint Find captured.
MetadataUpdate(i, a) == [i.Metadata EXCEPT !.Fingerprint = a.metadataFingerprint]

\* RenderGCE without its check of the remaining diff.
RenderGCEResultUnchecked(changes) == NoError

\* The end of RenderGCE on an existing instance: a diff with a field still set
\* is an error.
RenderGCEResult(changes) ==
  IF ~isZero(changes) THEN <<"Cannot apply changes to Instance">> ELSE NoError

\* RenderGCE after waitCompletion returned nil: the metadata change is applied.
ClearMetadata(changes) == [changes EXCEPT !.Metadata = Nil]

\* One disk block of the template, for the attached disk d of the payload.
TerraformDisk(d) ==
  [ AutoDelete |-> d.AutoDelete, Scratch |-> d.Type = "SCRATCH", DeviceName |-> d.DeviceName,
    Disk |-> IF ~IsNil(d.InitializeParams) THEN "" ELSE lastComponent(d.Source),
    Image |-> IF ~IsNil(d.InitializeParams) THEN Val(d.InitializeParams).SourceImage ELSE EmptyStr ]

\* The key/value pairs of the payload's metadata (tf.AddMetadata).
TerraformMetadata(md) == {<<md.Items[k].Key, Val(md.Items[k].Value)>> : k \in DOMAIN md.Items}

\* The template RenderTerraform builds from the desired task e and its payload i.
TerraformTemplate(e, i) ==
  LET metadata == TerraformMetadata(i.Metadata)
      startupScript == {kv \in metadata : kv[1] = "startup-script"}
  IN  [ Name |-> i.Name,
        CanIPForward |-> i.CanIpForward,
        MachineType |-> lastComponent(i.MachineType),
        Zone |-> IF i.Zone = EmptyStr /\ ~IsNil(e.Zone) THEN <<Val(e.Zone)>> ELSE i.Zone,
        Tags |-> Val(i.Tags).Items,
        ServiceAccounts |-> i.ServiceAccounts,
        Disks |-> [n \in 1..Len(i.Disks) |-> TerraformDisk(i.Disks[n])],
        NetworkInterfaces |-> i.NetworkInterfaces,
        Metadata |-> metadata \ startupScript,
        MetadataStartupScript |->
          IF startupScript # {} THEN Some((CHOOSE kv \in startupScript : TRUE)[2]) ELSE Nil,
        Scheduling |-> Some(i.Scheduling) ]

\* waitCompletion without a look at the operation's error record.
waitCompletionPollIgnoresError(resp) ==
  IF resp.err THEN [next |-> "return", err |-> <<"error fetching operation status">>]
  ELSE IF resp.Status # "DONE" THEN [next |-> "sleep", err |-> NoError]
  ELSE [next |-> "return", err |-> NoError]

\* waitCompletion taking RUNNING for a terminal status.
waitCompletionPollRunningIsDone(resp) ==
  IF resp.err THEN [next |-> "return", err |-> <<"error fetching operation status">>]
  ELSE IF resp.Status \notin {"DONE", "RUNNING"} THEN [next |-> "sleep", err |-> NoError]
  ELSE [next |-> "return", err |-> NoError]

\* One round of waitCompletion's loop on the answer resp of ZoneOperations.Get,
\* and, once the status is DONE, the code after the loop.
waitCompletionPoll(resp) ==
  IF resp.err THEN [next |-> "return", err |-> <<"error fetching operation status">>]
  ELSE IF resp.Status # "DONE" THEN [next |-> "sleep", err |-> NoError]
  ELSE IF ~IsNil(resp.Error)
    THEN IF Len(Val(resp.Error).Errors) = 0
           THEN [next |-> "panic", err |-> NoError]
           ELSE [next |-> "return", err |-> <<"operation failed", Val(resp.Error).Errors[1].Message>>]
  ELSE [next |-> "return", err |-> NoError]

\* ------------------------------------------------------- the GCE backend

\* The fingerprints the backend hands out, in order.
Fingerprints == <<"fp-a", "fp-b", "fp-c", "fp-d">>

\* The address resources of the region (Addresses.List).
gceAddresses == {[Name |-> "ip1", Address |-> <<"10.0.0.1">>]}

ZoneURL(zone) == ComputePrefix \o <<Project, "zones", zone>>

\* The instance the backend holds after Instances.Insert of payload i.
StoredInstance(i, zone, fingerprint) ==
  [ Name |-> i.Name,
    Tags |-> [Items |-> IF IsNil(i.Tags) THEN <<>> ELSE Val(i.Tags).Items],
    Zone |-> ZoneURL(zone),
    MachineType |-> i.MachineType,
    CanIpForward |-> i.CanIpForward,
    Scheduling |-> Some(i.Scheduling),
    NetworkInterfaces |-> i.NetworkInterfaces,
    ServiceAccounts |-> i.ServiceAccounts,
    Disks |->
      [ n \in 1..Len(i.Disks) |->
          [ Source |-> IF i.Disks[n].Boot THEN ZoneURL(zone) \o <<"disks", i.Name>>
                       ELSE i.Disks[n].Source,
            DeviceName |-> i.Disks[n].DeviceName ] ],
    Metadata |-> Some([Items |-> i.Metadata.Items, Fingerprint |-> fingerprint]) ]

\* The boot disk the backend creates with the instance.
StoredBootDisk(i) ==
  [Name |-> i.Name, SourceImage |-> Val(i.Disks[1].InitializeParams).SourceImage]

NoOperation == [Status |-> "NONE", Error |-> Nil, Warnings |-> Nil]

\* How an operation may end: its error record and its warnings.
OperationOutcomes ==
  { [Error |-> Nil, Warnings |-> Nil],
    [Error |-> Nil, Warnings |-> Some(<<"w1">>)],
    [Error |-> Some([Errors |-> <<>>]), Warnings |-> Nil],
    [Error |-> Some([Errors |-> <<[Message |-> "m1"]>>]), Warnings |-> Nil],
    [Error |-> Some([Errors |-> <<[Message |-> "m1"], [Message |-> "m2"]>>]),
     Warnings |-> Some(<<"w1">>)] }

\* ------------------------------------------------------------ the inputs

\* The reconciliation passes; all target the same Name and Zone.
Passes == {"p1", "p2"}

Metadata1(v) == Some({<<"k", v>>})

\* A desired instance whose live counterpart differs at most in its metadata.
DesiredBase ==
  [ ZeroInstance EXCEPT
      !.Name = Some("vm"), !.Zone = Some("z1"), !.MachineType = Some("n1"),
      !.Image = Some(<<"img">>), !.CanIPForward = Some(FALSE),
      !.Preemptible = Some(FALSE), !.Scopes = Some(<<"storage-ro">>),
      !.Disks = Some({}), !.Metadata = Metadata1(NewStringResource("v0")) ]

DataDiskRef == [Name |-> "pd1", Zone |-> Some("z1")]

DesiredMeta(v) == [DesiredBase EXCEPT !.Metadata = Metadata1(NewStringResource(v))]

\* A desired instance with a network and an IP address, resolved or not yet.
DesiredIP(address) ==
  [ DesiredBase EXCEPT
      !.Network = Some([Name |-> "net"]),
      !.IPAddress = Some([Name |-> "ip1", Address |-> address]) ]

\* The desired instances a single pass is run with.
DesiredSet ==
  { DesiredBase,
    DesiredIP(Nil),
    DesiredIP(Some(<<"10.0.0.1">>)),
    DesiredMeta("v1"),
    [DesiredMeta("v1") EXCEPT !.MachineType = Some("n2")],
    [DesiredBase EXCEPT !.MachineType = Some("n2")],
    [DesiredMeta("v1") EXCEPT !.Disks = Some({<<"data", DataDiskRef>>})],
    [DesiredMeta("v1") EXCEPT
        !.Disks = Some({<<"data", DataDiskRef>>, <<"persistent-disks-0", DataDiskRef>>})],
    [DesiredBase EXCEPT !.Metadata = Metadata1(BrokenResource)],
    [DesiredMeta("v1") EXCEPT !.Image = Some(<<"a", "b", "c">>)] }

\* The desired instances of two passes that run at once.
RaceDesired == {DesiredMeta("v1"), DesiredMeta("v2")}

\* The live instance the passes may find: the one created from DesiredBase.
LiveInstance ==
  StoredInstance(
    mapToGCE(DesiredBase, Project, GCEResolver, <<>>,
             <<<<"k", NewStringResource("v0")>>>>).i,
    "z1", "fp-0")

InitialInstances ==
  {Nil, Some(LiveInstance), Some([LiveInstance EXCEPT !.Metadata = Nil])}

NoInstance == LiveInstance

\* A live instance with an external address.
LiveNat(address) ==
  StoredInstance(
    mapToGCE(DesiredIP(Some(address)), Project, GCEResolver, <<>>,
             <<<<"k", NewStringResource("v0")>>>>).i,
    "z1", "fp-0")

\* A live instance with a second disk whose source is source.
LiveDataDisk(source) ==
  [LiveInstance EXCEPT !.Disks = @ \o <<[Source |-> source, DeviceName |-> "data"]>>]

\* The live instances on which Find makes its address and disk lookups: an
\* address the region lists, one it does not list, a data disk with a canonical
\* source and one with a malformed source.
LookupInstances ==
  { Some(LiveNat(<<"10.0.0.1">>)),
    Some(LiveNat(<<"10.0.0.9">>)),
    Some(LiveDataDisk(DiskURL(DataDiskRef, Project))),
    Some(LiveDataDisk(<<"pd1">>)) }

\* The boot disk of the live instance, and one whose source image is no
\* canonical URL.
LiveDisks == {[Name |-> "vm", SourceImage |-> BuildImageURL(Project, <<"img">>)]}

MalformedImageDisks == {[Name |-> "vm", SourceImage |-> <<"img">>]}

\* The desired instances a pass to the Terraform target is run with.
TerraformDesired ==
  { [DesiredBase EXCEPT !.Tags = Some(<<"t1">>)],
    [DesiredIP(Nil) EXCEPT !.Tags = Some(<<>>)],
    [DesiredBase EXCEPT
        !.Tags = Some(<<"t1">>),
        !.Disks = Some({<<"data", DataDiskRef>>}),
        !.Metadata = Some({<<"k", NewStringResource("v1")>>,
                           <<"startup-script", NewStringResource("s1")>>})],
    [DesiredBase EXCEPT !.Tags = Some(<<"t1">>), !.Metadata = Metadata1(BrokenResource)],
    [DesiredBase EXCEPT !.Tags = Some(<<"t1">>), !.Image = Some(<<"a", "b", "c">>)],
    DesiredMeta("v1") }

\* The initial states: the backend's instance and disks, the desired task of
\* each pass that runs, and the target of the context.
Scenarios ==
  [ instance : {Nil}, disks : {{}},
    desired : [{"p1"} -> DesiredSet] \cup [Passes -> RaceDesired], target : {"gce"} ]
  \cup
  [ instance : InitialInstances \ {Nil}, disks : {LiveDisks},
    desired : [{"p1"} -> DesiredSet] \cup [Passes -> RaceDesired], target : {"gce"} ]
  \cup
  [ instance : LookupInstances, disks : {LiveDisks},
    desired : [{"p1"} -> {DesiredMeta("v1")}], target : {"gce"} ]
  \cup
  [ instance : {Some(LiveInstance)}, disks : {{}, MalformedImageDisks},
    desired : [{"p1"} -> {DesiredMeta("v1")}], target : {"gce"} ]
  \cup
  [ instance : {Nil}, disks : {{}},
    desired : [{"p1"} -> TerraformDesired], target : {"terraform"} ]
  \cup
  [ instance : {Some(LiveInstance)}, disks : {LiveDisks},
    desired : [{"p1"} -> TerraformDesired], target : {"terraform"} ]

NoWait == [state |-> "none", err |-> NoError]

NoGet == [status |-> "none", hasMetadata |-> FALSE, Fingerprint |-> ""]

NoLookups == [addr |-> "none", disk |-> "none", image |-> EmptyStr, sources |-> <<>>]

\* Find is not running: it holds no r and no addr.
NoLocals == [r |-> Nil, addr |-> Nil]

NoTemplate == Nil

\* No run of the utilities.
NoCall == [kind |-> "none"]

\* No pass has taken a step and no operation was started.
NothingDone ==
  /\ gceFpCount = 0
  /\ gceOps = [p \in Passes |-> NoOperation]
  /\ actualOf = [p \in Passes |-> Nil]
  /\ changesOf = [p \in Passes |-> ZeroInstance]
  /\ result = [p \in Passes |-> NoError]
  /\ payload = [p \in Passes |-> Nil]
  /\ log = [p \in Passes |-> <<>>]
  /\ polls = [p \in Passes |-> 0]
  /\ pollTick = [p \in Passes |-> FALSE]
  /\ lastStatus = [p \in Passes |-> ""]
  /\ waitResult = [p \in Passes |-> NoWait]
  /\ inserted = [p \in Passes |-> Nil]
  /\ metadataSent = [p \in Passes |-> Nil]
  /\ getResp = [p \in Passes |-> NoGet]
  /\ replaced = [p \in Passes |-> ""]
  /\ findResp = [p \in Passes |-> NoLookups]
  /\ findLocal = [p \in Passes |-> NoLocals]
  /\ rendered = [p \in Passes |-> NoTemplate]

Init ==
  \E sc \in Scenarios :
    /\ gceInstance = sc.instance
    /\ gceDisks = sc.disks
    /\ pc = [p \in Passes |-> IF p \in DOMAIN sc.desired THEN "Start" ELSE "Off"]
    /\ desired = [p \in Passes |-> IF p \in DOMAIN sc.desired THEN sc.desired[p] ELSE ZeroInstance]
    /\ target = sc.target
    /\ NothingDone
    /\ fnArg = NoCall
    /\ fnTrace = <<>>

\* ------------------------------------------------------- a pass, step by step

\* The backend's answers to the queries of Find.
InstancesGet(fault) ==
  IF fault = "get" THEN [err |-> "error", r |-> NoInstance]
  ELSE IF IsNil(gceInstance) THEN [err |-> "notFound", r |-> NoInstance]
  ELSE [err |-> "", r |-> Val(gceInstance)]

AddressesList(fault, natIP) ==
  { [err |-> fault = "addr", Items |-> items] :
      items \in Orderings({[Name |-> a.Name] : a \in {b \in gceAddresses : b.Address = natIP}}) }

DisksGet(fault, name) ==
  LET found == {d \in gceDisks : d.Name = name}
  IN  IF fault = "disk" THEN [err |-> "error", SourceImage |-> EmptyStr]
      ELSE IF found = {} THEN [err |-> "notFound", SourceImage |-> EmptyStr]
      ELSE [err |-> "", SourceImage |-> (CHOOSE d \in found : TRUE).SourceImage]

\* What Find reads of a query it has not issued.
NoAddressList == [err |-> FALSE, Items |-> <<>>]

NoDisk == [err |-> "", SourceImage |-> EmptyStr]

\* Where Find goes once Instances.Get has answered: it returns on an error,
\* asks Addresses.List for a NAT address, else Disks.Get for a boot disk, else
\* returns.
FindAfterGet(get) ==
  IF get.err # "" THEN "return"
  ELSE IF FindHasNatIP(get.r) THEN "FindAddr"
  ELSE IF Len(get.r.Disks) # 0 THEN "FindDisk"
  ELSE "return"

\* Where Find goes once Addresses.List has answered: it returns on an error or
\* an empty list, asks Disks.Get for a boot disk, else returns.
FindAfterAddr(r, addrList) ==
  IF addrList.err \/ Len(addrList.Items) = 0 THEN "return"
  ELSE IF Len(r.Disks) # 0 THEN "FindDisk"
  ELSE "return"

\* Find returns f to DefaultDeltaRunMethod: an error aborts the pass.
FindReturn(p, f) ==
  /\ actualOf' = [actualOf EXCEPT ![p] = f.actual]
  /\ result' = [result EXCEPT ![p] = f.err]
  /\ pc' = [pc EXCEPT ![p] = IF f.err # NoError THEN "Aborted" ELSE "Found"]
  /\ findLocal' = [findLocal EXCEPT ![p] = NoLocals]

\* DefaultDeltaRunMethod, first step: Find, up to the answer of Instances.Get.
FindInstancesGet(p) ==
  /\ pc[p] = "Start"
  /\ \E fault \in {"none", "get"} :
       LET get == InstancesGet(fault)
           ok == get.err = ""
           next == FindAfterGet(get)
       IN  /\ log' = [log EXCEPT ![p] = Append(@, "Instances.Get")]
           /\ getResp' = [getResp EXCEPT ![p] =
                [ status |-> IF ok THEN "ok" ELSE get.err,
                  hasMetadata |-> ok /\ ~IsNil(get.r.Metadata),
                  Fingerprint |-> IF ok /\ ~IsNil(get.r.Metadata)
                                    THEN Val(get.r.Metadata).Fingerprint ELSE "" ]]
           /\ findResp' = [findResp EXCEPT ![p].sources =
                IF ok THEN [k \in 1..(Len(get.r.Disks) - 1) |-> get.r.Disks[k + 1].Source]
                      ELSE <<>>]
           /\ IF next = "return"
                THEN FindReturn(p, Find(desired[p], Project, get, NoAddressList, NoDisk))
                ELSE /\ pc' = [pc EXCEPT ![p] = next]
                     /\ findLocal' = [findLocal EXCEPT ![p].r = Some(get.r)]
                     /\ UNCHANGED <<actualOf, result>>
  /\ UNCHANGED <<backendVars, desired, changesOf, payload, polls, pollTick, lastStatus, waitResult,
                 inserted, metadataSent, replaced, rendered, fixedVars>>

\* Find, from the answer of Instances.Get to the answer of Addresses.List.
FindAddressesList(p) ==
  /\ pc[p] = "FindAddr"
  /\ LET r == Val(findLocal[p].r)
         get == [err |-> "", r |-> r]
     IN  \E fault \in {"none", "addr"} :
           \E addrList \in AddressesList(fault, r.NetworkInterfaces[1].AccessConfigs[1].NatIP) :
             LET next == FindAfterAddr(r, addrList)
             IN  /\ log' = [log EXCEPT ![p] = Append(@, "Addresses.List")]
                 /\ findResp' = [findResp EXCEPT ![p].addr =
                      IF addrList.err THEN "error"
                      ELSE IF Len(addrList.Items) = 0 THEN "empty" ELSE "ok"]
                 /\ IF next = "return"
                      THEN FindReturn(p, Find(desired[p], Project, get, addrList, NoDisk))
                      ELSE /\ pc' = [pc EXCEPT ![p] = next]
                           /\ findLocal' = [findLocal EXCEPT ![p].addr = Some(addrList)]
                           /\ UNCHANGED <<actualOf, result>>
  /\ UNCHANGED <<backendVars, desired, changesOf, payload, polls, pollTick, lastStatus, waitResult,
                 inserted, metadataSent, getResp, replaced, rendered, fixedVars>>

\* Find, from the answers before to the answer of Disks.Get and to its return.
FindDisksGet(p) ==
  /\ pc[p] = "FindDisk"
  /\ LET r == Val(findLocal[p].r)
         get == [err |-> "", r |-> r]
         addrList == IF IsNil(findLocal[p].addr) THEN NoAddressList ELSE Val(findLocal[p].addr)
     IN  \E fault \in {"none", "disk"} :
           LET diskGet == DisksGet(fault, FindDiskName(r))
           IN  /\ log' = [log EXCEPT ![p] = Append(@, "Disks.Get")]
               /\ findResp' = [findResp EXCEPT ![p].disk = IF diskGet.err = "" THEN "ok" ELSE diskGet.err,
                                               ![p].image = diskGet.SourceImage]
               /\ FindReturn(p, Find(desired[p], Project, get, addrList, diskGet))
  /\ UNCHANGED <<backendVars, desired, changesOf, payload, polls, pollTick, lastStatus, waitResult,
                 inserted, metadataSent, getResp, replaced, rendered, fixedVars>>

\* DefaultDeltaRunMethod, second step: the diff, then CheckChanges.
RunDiff(p) ==
  /\ pc[p] = "Found"
  /\ LET c == BuildChanges(actualOf[p], desired[p])
         err == CheckChanges(actualOf[p], desired[p], c)
     IN  /\ changesOf' = [changesOf EXCEPT ![p] = c]
         /\ result' = [result EXCEPT ![p] = err]
         /\ pc' = [pc EXCEPT ![p] = IF err # NoError THEN "Aborted" ELSE "Dispatch"]
  /\ UNCHANGED <<backendVars, desired, actualOf, payload, log, polls, pollTick, lastStatus,
                 waitResult, inserted, metadataSent, getResp, replaced, findResp,
                 findLocal, rendered, fixedVars>>

\* Whether the backend accepts a metadata update: the instance exists and the
\* update carries the fingerprint of the metadata it replaces.
SetMetadataAccepted(md) ==
  /\ ~IsNil(gceInstance)
  /\ ~IsNil(Val(gceInstance).Metadata)
  /\ Val(Val(gceInstance).Metadata).Fingerprint = md.Fingerprint

\* Whether the backend accepts an insert: no instance of this name exists and
\* the device names of the payload are distinct.
InsertAccepted(i) ==
  /\ IsNil(gceInstance)
  /\ \A m, n \in 1..Len(i.Disks) : m # n => i.Disks[m].DeviceName # i.Disks[n].DeviceName

\* RenderGCE up to and including its first backend call.
RenderGCE(p) ==
  /\ pc[p] = "Dispatch"
  /\ RenderMethod(target) = "RenderGCE"
  /\ \E diskOrder \in Orderings(Entries(desired[p].Disks)),
        metadataOrder \in Orderings(Entries(desired[p].Metadata)),
        fail \in BOOLEAN :
       LET e == desired[p]
           a == actualOf[p]
           zone == Val(e.Zone)
           m == mapToGCE(e, Project, GCEResolver, diskOrder, metadataOrder)
           i == m.i
           md == MetadataUpdate(i, Val(a))
           call == RenderGCECall(a, changesOf[p])
       IN  IF m.exit THEN
             /\ pc' = [pc EXCEPT ![p] = "Exited"]
             /\ UNCHANGED <<backendVars, result, payload, log, inserted, metadataSent, replaced>>
           ELSE IF m.err # NoError THEN
             /\ pc' = [pc EXCEPT ![p] = "Done"]
             /\ result' = [result EXCEPT ![p] = m.err]
             /\ UNCHANGED <<backendVars, payload, log, inserted, metadataSent, replaced>>
           ELSE IF call = "Instances.Insert" THEN
             /\ payload' = [payload EXCEPT ![p] = Some(i)]
             /\ log' = [log EXCEPT ![p] = Append(@, "Instances.Insert")]
             /\ inserted' = [inserted EXCEPT ![p] = Some(i)]
             /\ pc' = [pc EXCEPT ![p] = "Done"]
             /\ IF ~fail /\ InsertAccepted(i)
                  THEN /\ gceInstance' = Some(StoredInstance(i, zone, Fingerprints[gceFpCount + 1]))
                       /\ gceDisks' = gceDisks \cup {StoredBootDisk(i)}
                       /\ gceFpCount' = gceFpCount + 1
                       /\ result' = [result EXCEPT ![p] = NoError]
                  ELSE /\ result' = [result EXCEPT ![p] = <<"error creating Instance">>]
                       /\ UNCHANGED <<gceInstance, gceDisks, gceFpCount>>
             /\ UNCHANGED <<gceOps, metadataSent, replaced>>
           ELSE IF call = "Instances.SetMetadata" THEN
             /\ payload' = [payload EXCEPT ![p] = Some(i)]
             /\ log' = [log EXCEPT ![p] = Append(@, "Instances.SetMetadata")]
             /\ metadataSent' = [metadataSent EXCEPT ![p] = Some(md)]
             /\ IF ~fail /\ SetMetadataAccepted(md)
                  THEN /\ gceInstance' =
                            Some([Val(gceInstance) EXCEPT !.Metadata =
                                    Some([Items |-> md.Items,
                                          Fingerprint |-> Fingerprints[gceFpCount + 1]])])
                       /\ gceFpCount' = gceFpCount + 1
                       /\ gceOps' = [gceOps EXCEPT ![p] = [NoOperation EXCEPT !.Status = "PENDING"]]
                       /\ replaced' = [replaced EXCEPT ![p] =
                                         Val(Val(gceInstance).Metadata).Fingerprint]
                       /\ pc' = [pc EXCEPT ![p] = "Wait"]
                       /\ UNCHANGED result
                  ELSE /\ result' = [result EXCEPT ![p] = <<"error setting metadata on instance">>]
                       /\ pc' = [pc EXCEPT ![p] = "Done"]
                       /\ UNCHANGED <<gceInstance, gceFpCount, gceOps, replaced>>
             /\ UNCHANGED <<gceDisks, inserted>>
           ELSE
             /\ payload' = [payload EXCEPT ![p] = Some(i)]
             /\ result' = [result EXCEPT ![p] = RenderGCEResult(changesOf[p])]
             /\ pc' = [pc EXCEPT ![p] = "Done"]
             /\ UNCHANGED <<backendVars, log, inserted, metadataSent, replaced>>
  /\ UNCHANGED <<desired, actualOf, changesOf, polls, pollTick, lastStatus, waitResult, getResp,
                 findResp, findLocal, rendered, fixedVars>>

\* A RenderTerraform that creates the instance on the backend.
RenderTerraformCallInsert == "Instances.Insert"

\* The one outward call of RenderTerraform: the template goes to the target.
RenderTerraformCall == "TerraformTarget.RenderResource"

\* RenderTerraform: the payload is mapped with the reference resolver, the
\* template is built (i.Tags is dereferenced: a nil Tags panics) and handed to
\* the target, which may refuse it.
RenderTerraform(p) ==
  /\ pc[p] = "Dispatch"
  /\ RenderMethod(target) = "RenderTerraform"
  /\ \E diskOrder \in Orderings(Entries(desired[p].Disks)),
        metadataOrder \in Orderings(Entries(desired[p].Metadata)),
        fail \in BOOLEAN :
       LET e == desired[p]
           m == mapToGCE(e, Project, TerraformResolver, diskOrder, metadataOrder)
           i == m.i
       IN  IF m.exit THEN
             /\ pc' = [pc EXCEPT ![p] = "Exited"]
             /\ UNCHANGED <<result, payload, rendered, log>>
           ELSE IF m.err # NoError THEN
             /\ pc' = [pc EXCEPT ![p] = "Done"]
             /\ result' = [result EXCEPT ![p] = m.err]
             /\ UNCHANGED <<payload, rendered, log>>
           ELSE IF IsNil(i.Tags) THEN
             /\ pc' = [pc EXCEPT ![p] = "Crashed"]
             /\ payload' = [payload EXCEPT ![p] = Some(i)]
             /\ UNCHANGED <<result, rendered, log>>
           ELSE
             /\ pc' = [pc EXCEPT ![p] = "Done"]
             /\ payload' = [payload EXCEPT ![p] = Some(i)]
             /\ log' = [log EXCEPT ![p] = Append(@, RenderTerraformCall)]
             /\ IF fail
                  THEN /\ result' = [result EXCEPT ![p] = <<"error rendering resource">>]
                       /\ UNCHANGED rendered
                  ELSE /\ result' = [result EXCEPT ![p] = NoError]
                       /\ rendered' = [rendered EXCEPT ![p] = Some(TerraformTemplate(e, i))]
  /\ UNCHANGED <<backendVars, desired, actualOf, changesOf, polls, pollTick, lastStatus,
                 waitResult, inserted, metadataSent, getResp, replaced, findResp,
                 findLocal, fixedVars>>

\* waitCompletion: one status query; when it returns, the rest of RenderGCE.
waitCompletion(p) ==
  /\ pc[p] = "Wait"
  /\ \E fail \in BOOLEAN :
       LET op == gceOps[p]
           resp == [err |-> fail, Status |-> op.Status, Error |-> op.Error, Warnings |-> op.Warnings]
           w == waitCompletionPoll(resp)
           cleared == ClearMetadata(changesOf[p])
       IN  /\ polls' = [polls EXCEPT ![p] = IF @ < MaxPolls THEN @ + 1 ELSE @]
           /\ pollTick' = [pollTick EXCEPT ![p] = ~@]
           /\ lastStatus' = [lastStatus EXCEPT ![p] = IF fail THEN "error" ELSE op.Status]
           /\ IF w.next = "sleep" THEN UNCHANGED <<pc, waitResult, result, changesOf>>
              ELSE IF w.next = "panic" THEN
                /\ pc' = [pc EXCEPT ![p] = "Crashed"]
                /\ waitResult' = [waitResult EXCEPT ![p] = [state |-> "panicked", err |-> NoError]]
                /\ UNCHANGED <<result, changesOf>>
              ELSE IF w.err # NoError THEN
                /\ pc' = [pc EXCEPT ![p] = "Done"]
                /\ waitResult' = [waitResult EXCEPT ![p] = [state |-> "returned", err |-> w.err]]
                /\ result' = [result EXCEPT ![p] = <<"error setting metadata on instance">> \o w.err]
                /\ UNCHANGED changesOf
              ELSE
                /\ pc' = [pc EXCEPT ![p] = "Done"]
                /\ waitResult' = [waitResult EXCEPT ![p] = [state |-> "returned", err |-> NoError]]
                /\ changesOf' = [changesOf EXCEPT ![p] = cleared]
                /\ result' = [result EXCEPT ![p] = RenderGCEResult(cleared)]
  /\ UNCHANGED <<backendVars, desired, actualOf, payload, log, inserted, metadataSent,
                 getResp, replaced, findResp, findLocal, rendered, fixedVars>>

\* The backend works on a zone operation: PENDING, RUNNING, then DONE with
\* its outcome.
OperationProgress(p) ==
  /\ gceOps[p].Status \in {"PENDING", "RUNNING"}
  /\ \/ /\ gceOps[p].Status = "PENDING"
        /\ gceOps' = [gceOps EXCEPT ![p].Status = "RUNNING"]
     \/ \E o \in OperationOutcomes :
          gceOps' = [gceOps EXCEPT ![p] = [Status |-> "DONE", Error |-> o.Error, Warnings |-> o.Warnings]]
  /\ UNCHANGED <<gceInstance, gceDisks, gceFpCount, pc, desired, actualOf, changesOf, result,
                 payload, log, polls, pollTick, lastStatus, waitResult, inserted, metadataSent,
                 getResp, replaced, findResp, findLocal, rendered, fixedVars>>

Next ==
  \E p \in Passes :
    \/ FindInstancesGet(p)
    \/ FindAddressesList(p)
    \/ FindDisksGet(p)
    \/ RunDiff(p)
    \/ RenderGCE(p)
    \/ RenderTerraform(p)
    \/ waitCompletion(p)
    \/ OperationProgress(p)

Spec == Init /\ [][Next]_vars

\* The loop of waitCompletion sleeps a second and queries again: a pass that
\* waits keeps taking its next status query.  Every query is a step (pollTick
\* changes), so a pass whose operation never reports DONE and whose queries
\* all succeed waits for ever.
FairSpec == Spec /\ \A p \in Passes : WF_vars(waitCompletion(p))

\* ------------------------------------- the identifier and scope utilities

\* The strings the scope functions are run on: the mnemonics and the URIs of
\* the table, and strings that are neither.
ScopeInputs ==
  {a[1] : a \in scopeAliases} \cup {a[2] : a \in scopeAliases}
    \cup { "", "cloud-platform", "Storage-ro", "storage-ro ",
           "https://www.googleapis.com/auth/cloud-platform",
           "https://www.googleapis.com/auth/compute.readonly" }

\* The default projects and image specs BuildImageURL is run on.
ImageProjects == {"proj", "other"}

ImageSpecs ==
  { <<"img">>, <<"img2">>, <<"proj", "img">>, <<"other", "img">>, <<"third", "img2">>,
    <<"a", "b", "c">> }

\* The single-field settings of a diff: a pointer to a value (the zero value
\* included), a slice or a map (the empty one included), a fingerprint.
FieldSettings ==
  { <<"Name", Some("")>>, <<"Name", Some("vm")>>,
    <<"Network", Some([Name |-> "net"])>>,
    <<"Tags", Some(<<>>)>>, <<"Tags", Some(<<"t1">>)>>,
    <<"Preemptible", Some(FALSE)>>, <<"Preemptible", Some(TRUE)>>,
    <<"Image", Some(<<"img">>)>>,
    <<"Disks", Some({})>>, <<"Disks", Some({<<"data", DataDiskRef>>})>>,
    <<"CanIPForward", Some(FALSE)>>,
    <<"IPAddress", Some([Name |-> "ip1", Address |-> Nil])>>,
    <<"Subnet", Some([Name |-> "sub"])>>,
    <<"Scopes", Some(<<>>)>>, <<"Scopes", Some(<<"storage-ro">>)>>,
    <<"Metadata", Some({})>>, <<"Metadata", Metadata1(NewStringResource("v1"))>>,
    <<"Zone", Some("z1")>>,
    <<"MachineType", Some("n1")>>,
    <<"metadataFingerprint", "fp-0">> }

\* The diff with the fields of settings set, every other field unset.
RECURSIVE DiffWith(_)
DiffWith(settings) ==
  IF settings = {} THEN ZeroInstance
  ELSE LET st == CHOOSE x \in settings : TRUE
       IN  [DiffWith(settings \ {st}) EXCEPT ![st[1]] = st[2]]

\* The sets of at most two settings, of different fields.
DiffSettings ==
  { ss \in SUBSET FieldSettings :
      /\ Cardinality(ss) <= 2
      /\ \A x, y \in ss : x # y => x[1] # y[1] }

UtilInputs ==
  [kind : {"scope"}, s : ScopeInputs]
    \cup [kind : {"image"}, project : ImageProjects, spec : ImageSpecs]
    \cup {[kind |-> "diff", set |-> {st[1] : st \in ss}, i |-> DiffWith(ss)] : ss \in DiffSettings}

UtilInit ==
  /\ gceInstance = Nil
  /\ gceDisks = {}
  /\ pc = [p \in Passes |-> "Off"]
  /\ desired = [p \in Passes |-> ZeroInstance]
  /\ target = "gce"
  /\ NothingDone
  /\ fnArg \in UtilInputs
  /\ fnTrace = <<>>

\* The argument of the k-th call of a run of the scope functions.
ScopeArg(k) == IF k = 1 THEN fnArg.s ELSE fnTrace[k - 1].ret

Called(fn, ret) ==
  /\ fnTrace' = Append(fnTrace, [fn |-> fn, ret |-> ret])
  /\ UNCHANGED <<backendVars, passVars, fnArg>>

CallExpandScopeAlias ==
  /\ fnArg.kind = "scope"
  /\ Len(fnTrace) < MaxCalls
  /\ Called("expandScopeAlias", expandScopeAlias(ScopeArg(Len(fnTrace) + 1)))

CallScopeToLongForm ==
  /\ fnArg.kind = "scope"
  /\ Len(fnTrace) < MaxCalls
  /\ Called("scopeToLongForm", scopeToLongForm(ScopeArg(Len(fnTrace) + 1)))

\* The range over the table returns at its first match, in any order.
CallScopeToShortForm ==
  /\ fnArg.kind = "scope"
  /\ Len(fnTrace) < MaxCalls
  /\ \E k \in scopeShortForms(ScopeArg(Len(fnTrace) + 1)) : Called("scopeToShortForm", k)

\* BuildImageURL on the input; a spec of neither one nor two tokens ends the
\* process.
CallBuildImageURL ==
  /\ fnArg.kind = "image"
  /\ fnTrace = <<>>
  /\ IF ImageSpecOK(fnArg.spec)
       THEN Called("BuildImageURL", BuildImageURL(fnArg.project, fnArg.spec))
       ELSE Called("glog.Exitf", fnArg.spec)

\* ShortenImageURL on the URL built, against the same default project.
CallShortenImageURL ==
  /\ fnArg.kind = "image"
  /\ Len(fnTrace) = 1
  /\ fnTrace[1].fn = "BuildImageURL"
  /\ Called("ShortenImageURL", ShortenImageURL(fnArg.project, fnTrace[1].ret))

CallIsZero ==
  /\ fnArg.kind = "diff"
  /\ fnTrace = <<>>
  /\ Called("isZero", isZero(fnArg.i))

UtilNext ==
  \/ CallExpandScopeAlias
  \/ CallScopeToLongForm
  \/ CallScopeToShortForm
  \/ CallBuildImageURL
  \/ CallShortenImageURL
  \/ CallIsZero

UtilSpec == UtilInit /\ [][UtilNext]_vars

\* ------------------------------------------------------------ the claims

Count(seq, x) == Cardinality({k \in DOMAIN seq : seq[k] = x})

\* RenderGCE has been entered by pass p.
Entered(p) == target = "gce" /\ pc[p] \in {"Wait", "Done", "Crashed", "Exited"}

\* The diff RenderGCE was called with.
DiffOf(p) == BuildChanges(actualOf[p], desired[p])

\* A diff field other than Metadata is populated.
OtherPopulated(c) == ~isZero(ClearMetadata(c))

\* Pass p applies a diff whose only populated field is Metadata to an existing
\* instance.
MetadataOnly(p) ==
  /\ Entered(p)
  /\ ~IsNil(actualOf[p])
  /\ ~IsNil(DiffOf(p).Metadata)
  /\ ~OtherPopulated(DiffOf(p))

\* Pass p applies a diff with Metadata and another field to an existing instance.
MetadataAndOther(p) ==
  /\ Entered(p)
  /\ ~IsNil(actualOf[p])
  /\ ~IsNil(DiffOf(p).Metadata)
  /\ OtherPopulated(DiffOf(p))

Unsupported == <<"Cannot apply changes to Instance">>

SetMetadataFailed == <<"error setting metadata on instance">>

StatusQueryFailed == <<"error setting metadata on instance", "error fetching operation status">>

\* The error list of a zone operation (none without an error record).
ErrorList(op) == IF IsNil(op.Error) THEN <<>> ELSE Val(op.Error).Errors

\* C1: RenderGCE on an existing instance with a metadata-only diff never inserts
\* and issues one SetMetadata call (none only if the payload could not be
\* mapped); it returns before the operation was seen DONE only with the error of
\* a rejected submission or a failed status query; when it returns nil, the
\* operation was seen DONE by waitCompletion and changes.Metadata is nil.
C1_MetadataOnlyUpdate ==
  \A p \in Passes :
    MetadataOnly(p) =>
      /\ Count(log[p], "Instances.Insert") = 0
      /\ Count(log[p], "Instances.SetMetadata") = (IF IsNil(payload[p]) THEN 0 ELSE 1)
      /\ pc[p] = "Wait" => lastStatus[p] \in {"", "PENDING", "RUNNING"}
      /\ (pc[p] = "Done" /\ ~IsNil(payload[p]) /\ lastStatus[p] # "DONE")
           => result[p] \in {SetMetadataFailed, StatusQueryFailed}
      /\ (pc[p] = "Done" /\ result[p] = NoError)
           => /\ lastStatus[p] = "DONE"
              /\ waitResult[p] = [state |-> "returned", err |-> NoError]
              /\ IsNil(changesOf[p].Metadata)
              /\ ~IsNil(metadataSent[p])

\* C1 witness: a metadata-only update that waited through a non-terminal status
\* and returned nil with the metadata cleared from the diff.
C1_Witness ==
  \E p \in Passes :
    /\ MetadataOnly(p)
    /\ pc[p] = "Done"
    /\ result[p] = NoError
    /\ polls[p] >= 2
    /\ IsNil(changesOf[p].Metadata)
    /\ Count(log[p], "Instances.SetMetadata") = 1

\* C2: when RenderGCE returns the unsupported-change error for a diff with
\* Metadata and another field on an existing instance, it has issued no
\* SetMetadata call (no partial update).
C2_NoPartialUpdate ==
  \A p \in Passes :
    (MetadataAndOther(p) /\ pc[p] = "Done" /\ result[p] = Unsupported)
      => /\ Count(log[p], "Instances.SetMetadata") = 0
         /\ IsNil(metadataSent[p])

\* C3: on an existing instance RenderGCE returns an error whenever a field of
\* the diff other than Metadata is populated, and whenever it returns nil every
\* field of changes is unset.
C3_NoSilentDrop ==
  \A p \in Passes :
    (Entered(p) /\ pc[p] = "Done" /\ ~IsNil(actualOf[p])) =>
      /\ OtherPopulated(DiffOf(p)) => result[p] # NoError
      /\ result[p] = NoError => isZero(changesOf[p])

\* C3 witness: RenderGCE returned the unsupported-change error for a diff that
\* holds a machine type and no metadata.
C3_Witness ==
  \E p \in Passes :
    /\ Entered(p)
    /\ pc[p] = "Done"
    /\ ~IsNil(actualOf[p])
    /\ IsNil(DiffOf(p).Metadata)
    /\ ~IsNil(DiffOf(p).MachineType)
    /\ result[p] = Unsupported

\* C4: RenderGCE with no actual issues one Insert call carrying the payload
\* mapToGCE builds from the desired instance (none only if the payload could
\* not be mapped), no SetMetadata call and no status query.
C4_CreateOnce ==
  \A p \in Passes :
    (Entered(p) /\ pc[p] = "Done" /\ IsNil(actualOf[p])) =>
      /\ Count(log[p], "Instances.SetMetadata") = 0
      /\ IsNil(metadataSent[p])
      /\ polls[p] = 0
      /\ gceOps[p] = NoOperation
      /\ Count(log[p], "Instances.Insert") = (IF IsNil(payload[p]) THEN 0 ELSE 1)
      /\ ~IsNil(payload[p]) =>
           /\ ~IsNil(inserted[p])
           /\ \E diskOrder \in Orderings(Entries(desired[p].Disks)),
                 metadataOrder \in Orderings(Entries(desired[p].Metadata)) :
                Val(inserted[p]) =
                  mapToGCE(desired[p], Project, GCEResolver, diskOrder, metadataOrder).i

\* C4 witness: a pass that found nothing has inserted the instance.
C4_Witness ==
  \E p \in Passes :
    /\ pc[p] = "Done"
    /\ IsNil(actualOf[p])
    /\ log[p] = <<"Instances.Get", "Instances.Insert">>
    /\ result[p] = NoError
    /\ ~IsNil(gceInstance)

\* C5: the disks of every payload mapToGCE builds are the boot disk (index 0,
\* boot, device name "persistent-disks-0") followed by one entry per key of
\* Disks named by that key, and all device names are pairwise distinct.
C5_PayloadDisks ==
  \A p \in Passes :
    ~IsNil(payload[p]) =>
      LET d == Val(payload[p]).Disks
          keys == {x[1] : x \in Entries(desired[p].Disks)}
      IN  /\ d[1].Index = 0 /\ d[1].Boot /\ d[1].DeviceName = "persistent-disks-0"
          /\ Len(d) = 1 + Cardinality(keys)
          /\ {d[k].DeviceName : k \in 2..Len(d)} = keys
          /\ \A m, n \in 1..Len(d) : m # n => d[m].DeviceName # d[n].DeviceName

\* C6: waitCompletion has not returned while the last status it queried is
\* PENDING or RUNNING, and has returned nil once it queried a status DONE with
\* an empty error list.
C6_ReturnsAtFirstDone ==
  \A p \in Passes :
    /\ lastStatus[p] \in {"PENDING", "RUNNING"} => waitResult[p].state = "none"
    /\ (lastStatus[p] = "DONE" /\ ErrorList(gceOps[p]) = <<>>)
         => waitResult[p] = [state |-> "returned", err |-> NoError]

\* C7: on a status DONE waitCompletion returns: the first error's message when
\* the operation lists errors, nil when it lists none; it never crashes.
C7_TerminalStatus ==
  \A p \in Passes :
    lastStatus[p] = "DONE" =>
      /\ waitResult[p].state # "panicked"
      /\ waitResult[p].err =
           IF Len(ErrorList(gceOps[p])) > 0
             THEN <<"operation failed", ErrorList(gceOps[p])[1].Message>>
             ELSE NoError

\* C8: every SetMetadata call carries the fingerprint that the Instances.Get of
\* the same pass returned, and never an empty one.
C8_TokenFromFind ==
  \A p \in Passes :
    ~IsNil(metadataSent[p]) =>
      /\ Val(metadataSent[p]).Fingerprint = getResp[p].Fingerprint
      /\ Val(metadataSent[p]).Fingerprint # ""

\* Pass p's metadata update was accepted / rejected by the backend.
Accepted(p) == gceOps[p].Status # "NONE"

Rejected(p) == ~IsNil(metadataSent[p]) /\ gceOps[p].Status = "NONE"

\* C9: of two passes that read the same fingerprint at most one has its
\* metadata update accepted; an accepted update replaces exactly the metadata
\* its pass read; a pass whose update is rejected ends with the backend-call
\* error, having read once and written once.
C9_OptimisticConcurrency ==
  /\ \A p, q \in Passes :
       ( /\ p # q
         /\ getResp[p].hasMetadata /\ getResp[q].hasMetadata
         /\ getResp[p].Fingerprint = getResp[q].Fingerprint )
         => ~(Accepted(p) /\ Accepted(q))
  /\ \A p \in Passes :
       /\ Accepted(p) => (getResp[p].hasMetadata /\ replaced[p] = getResp[p].Fingerprint)
       /\ Rejected(p) =>
            /\ pc[p] = "Done"
            /\ result[p] = SetMetadataFailed
            /\ Count(log[p], "Instances.Get") = 1
            /\ Count(log[p], "Instances.SetMetadata") = 1

\* C9 witness: two passes read the same fingerprint; one update was accepted,
\* the other, by then stale, was rejected.
C9_Witness ==
  \E p, q \in Passes :
    /\ p # q
    /\ getResp[p].hasMetadata /\ getResp[q].hasMetadata
    /\ getResp[p].Fingerprint = getResp[q].Fingerprint
    /\ Accepted(p)
    /\ Rejected(q)
    /\ Val(metadataSent[q]).Fingerprint # Val(Val(gceInstance).Metadata).Fingerprint
    /\ Val(metadataSent[q]).Fingerprint = replaced[p]

FindQueries(calls) ==
  SelectSeq(calls, LAMBDA c : c \in {"Instances.Get", "Addresses.List", "Disks.Get"})

\* C10: when Instances.Get answers not-found, Find returns a nil actual and no
\* error, and has issued no other query.
C10_FindAbsent ==
  \A p \in Passes :
    getResp[p].status = "notFound" =>
      /\ IsNil(actualOf[p])
      /\ pc[p] # "Aborted"
      /\ FindQueries(log[p]) = <<"Instances.Get">>

\* C10 witness: Find has returned (nil, nil) for an absent instance.
C10_Witness ==
  \E p \in Passes :
    /\ getResp[p].status = "notFound"
    /\ pc[p] = "Found"
    /\ IsNil(actualOf[p])
    /\ result[p] = NoError

\* A backend answer to pass p's Find that is a failure other than not-found:
\* a failed Instances.Get, a failed or empty Addresses.List, a failed Disks.Get
\* (not-found included), a source image or a disk source that is no canonical URL.
FindFailed(p) ==
  \/ getResp[p].status = "error"
  \/ findResp[p].addr \in {"error", "empty"}
  \/ findResp[p].disk \in {"error", "notFound"}
  \/ findResp[p].disk = "ok" /\ ParseGoogleCloudURL(findResp[p].image).err
  \/ /\ findResp[p].disk = "ok"
     /\ \E k \in DOMAIN findResp[p].sources : ParseGoogleCloudURL(findResp[p].sources[k]).err

\* C11: a failure of Find other than not-found aborts the pass: Find returned a
\* nil actual and an error, and the pass has issued no Insert and no SetMetadata
\* (and rendered nothing); a pass is aborted only by such a failure.
C11_FindFailureAborts ==
  \A p \in Passes :
    /\ FindFailed(p) =>
         /\ pc[p] = "Aborted"
         /\ IsNil(actualOf[p])
         /\ result[p] # NoError
         /\ Count(log[p], "Instances.Insert") = 0
         /\ Count(log[p], "Instances.SetMetadata") = 0
         /\ IsNil(inserted[p]) /\ IsNil(metadataSent[p]) /\ IsNil(payload[p])
         /\ polls[p] = 0
    /\ pc[p] = "Aborted" => FindFailed(p)

\* C11 witness: the instance has an external address that the region's address
\* list does not hold, and the pass was aborted with the address-not-found error.
C11_Witness ==
  \E p \in Passes :
    /\ findResp[p].addr = "empty"
    /\ pc[p] = "Aborted"
    /\ result[p] = <<"address not found">>
    /\ log[p] = <<"Instances.Get", "Addresses.List">>

\* The mnemonics and the URIs of the scope alias table.
Mnemonics == {a[1] : a \in scopeAliases}

URIs == {a[2] : a \in scopeAliases}

Expanders == {"expandScopeAlias", "scopeToLongForm"}

\* C12: the table has 7 mnemonics and 7 URIs; shortening the expansion of a
\* mnemonic returns the mnemonic, expanding the shortening of a URI returns the
\* URI (with either expansion function), and every function returns a string
\* that is neither a mnemonic nor a URI unchanged.
C12_ScopeRoundTrip ==
  /\ Cardinality(Mnemonics) = 7 /\ Cardinality(URIs) = 7
  /\ fnArg.kind = "scope" =>
       \A k \in DOMAIN fnTrace :
         /\ ScopeArg(k) \notin Mnemonics \cup URIs => fnTrace[k].ret = ScopeArg(k)
         /\ ( /\ k >= 2
              /\ ScopeArg(k - 1) \in Mnemonics
              /\ fnTrace[k - 1].fn \in Expanders
              /\ fnTrace[k].fn = "scopeToShortForm" ) => fnTrace[k].ret = ScopeArg(k - 1)
         /\ ( /\ k >= 2
              /\ ScopeArg(k - 1) \in URIs
              /\ fnTrace[k - 1].fn = "scopeToShortForm"
              /\ fnTrace[k].fn \in Expanders ) => fnTrace[k].ret = ScopeArg(k - 1)

\* C12 witness: a mnemonic was expanded to its URI and shortened back.
C12_Witness ==
  /\ fnArg = [kind |-> "scope", s |-> "monitoring-write"]
  /\ fnTrace =
       << [fn |-> "scopeToLongForm", ret |-> "https://www.googleapis.com/auth/monitoring.write"],
          [fn |-> "scopeToShortForm", ret |-> "monitoring-write"] >>

\* A run that built an image URL and shortened it against the same project.
ImageRoundTrip ==
  /\ fnArg.kind = "image"
  /\ Len(fnTrace) = 2
  /\ fnTrace[1].fn = "BuildImageURL"
  /\ fnTrace[2].fn = "ShortenImageURL"

\* C13: ShortenImageURL(p, BuildImageURL(p, spec)) returns no error and: for a
\* bare name "n" it yields "n"; for "p1/n" with p1 other than the default
\* project p it yields "p1/n"; for "p/n", naming the default project itself, it
\* yields the bare name "n".
C13_ImageRoundTrip ==
  ImageRoundTrip =>
    /\ ~fnTrace[2].ret.err
    /\ fnTrace[2].ret.spec =
         IF Len(fnArg.spec) = 2 /\ fnArg.spec[1] = fnArg.project
           THEN <<fnArg.spec[2]>>
           ELSE fnArg.spec

\* C13 as stated: for every default project and every spec "n" or "p1/n", the
\* round trip yields the spec it started from.
C13_ImageRoundTripEveryProject ==
  ImageRoundTrip => (~fnTrace[2].ret.err /\ fnTrace[2].ret.spec = fnArg.spec)

\* C13 witness: a spec naming another project than the default went through
\* BuildImageURL and came back from ShortenImageURL with its project.
C13_Witness ==
  /\ ImageRoundTrip
  /\ fnArg.project = "proj"
  /\ fnArg.spec = <<"other", "img">>
  /\ fnTrace[1].ret = ComputePrefix \o <<"other", "global", "images", "img">>
  /\ fnTrace[2].ret = [err |-> FALSE, spec |-> <<"other", "img">>]

\* C14: isZero of a diff is true when no field was set (the fresh diff) and
\* false when one or two fields were set, a slice or map set to an empty one
\* included; it is true exactly when every field equals that of &Instance{}.
C14_IsZero ==
  (fnArg.kind = "diff" /\ Len(fnTrace) = 1) =>
    /\ fnTrace[1].fn = "isZero"
    /\ fnTrace[1].ret = (fnArg.set = {})
    /\ fnTrace[1].ret = (\A f \in DOMAIN fnArg.i : fnArg.i[f] = ZeroInstance[f])

\* C14 witness: isZero returned false for a diff whose only set field is
\* Metadata, set to an empty map.
C14_Witness ==
  /\ fnArg.kind = "diff"
  /\ fnArg.set = {"Metadata"}
  /\ fnArg.i = [ZeroInstance EXCEPT !.Metadata = Some({})]
  /\ fnTrace = <<[fn |-> "isZero", ret |-> FALSE]>>

Writes == {"Instances.Insert", "Instances.SetMetadata"}

\* The places of a pass in order: what each place says about the calls issued
\* so far and about Find's answer.
PassOrder(p) ==
  /\ pc[p] \in {"Off", "Start"} => (log[p] = <<>> /\ getResp[p] = NoGet)
  /\ pc[p] \in {"FindAddr", "FindDisk"} =>
       /\ getResp[p].status = "ok"
       /\ log[p] \in {<<"Instances.Get">>, <<"Instances.Get", "Addresses.List">>}
       /\ IsNil(actualOf[p]) /\ result[p] = NoError /\ changesOf[p] = ZeroInstance
  /\ log[p] # <<>> => log[p][1] = "Instances.Get"
  /\ Count(log[p], "Instances.Get") <= 1
  /\ Count(log[p], "Instances.Insert") + Count(log[p], "Instances.SetMetadata") <= 1
  /\ \A k \in DOMAIN log[p] :
       log[p][k] \in Writes =>
         /\ k = Len(log[p])
         /\ pc[p] \in {"Wait", "Done", "Crashed"}
         /\ getResp[p].status \in {"ok", "notFound"}
  /\ Count(log[p], "Instances.Insert") = 1 =>
       (getResp[p].status = "notFound" /\ IsNil(actualOf[p]))
  /\ Count(log[p], "Instances.SetMetadata") = 1 =>
       (getResp[p].status = "ok" /\ ~IsNil(actualOf[p]))
  /\ pc[p] = "Found" => (IsNil(actualOf[p]) <=> getResp[p].status = "notFound")
  /\ pc[p] = "Aborted" => (FindFailed(p) /\ changesOf[p] = ZeroInstance)
  /\ pc[p] \in {"Dispatch", "Wait", "Done", "Crashed", "Exited"} =>
       /\ ~FindFailed(p)
       /\ changesOf[p] \in {DiffOf(p), ClearMetadata(DiffOf(p))}

\* The steps of a pass: Start to Found or Aborted (Find, query by query:
\* Instances.Get, then Addresses.List, then Disks.Get), Found to Dispatch
\* (the diff and CheckChanges), Dispatch to the end of the render method or
\* into its wait; a pass that ended takes no further step.
PassStep(p) ==
  /\ pc[p] = "Start" => pc'[p] \in {"Start", "FindAddr", "FindDisk", "Found", "Aborted"}
  /\ pc[p] = "FindAddr" => pc'[p] \in {"FindAddr", "FindDisk", "Found", "Aborted"}
  /\ pc[p] = "FindDisk" => pc'[p] \in {"FindDisk", "Found", "Aborted"}
  /\ pc[p] = "Found" => pc'[p] \in {"Found", "Dispatch"}
  /\ pc[p] = "Dispatch" => pc'[p] \in {"Dispatch", "Wait", "Done", "Crashed", "Exited"}
  /\ pc[p] = "Wait" => pc'[p] \in {"Wait", "Done", "Crashed"}
  /\ pc[p] \in {"Off", "Done", "Aborted", "Crashed", "Exited"} =>
       /\ pc'[p] = pc[p]
       /\ log'[p] = log[p]
       /\ polls'[p] = polls[p] /\ pollTick'[p] = pollTick[p]
       /\ result'[p] = result[p]

\* C15: a pass goes Start, Find, diff, CheckChanges, Dispatch, Done: its first
\* backend call is the Instances.Get of Find and no write precedes Find's
\* result; an Insert only after Find reported absent, a SetMetadata only after
\* Find returned an actual, never both; CheckChanges rejects no diff (only a
\* failure of Find aborts); and a pass that ended makes no further call.
C15_PassOrder ==
  /\ [](\A p \in Passes : PassOrder(p))
  /\ [][\A p \in Passes : PassStep(p)]_vars

\* C15 witness: a pass found the instance, computed a diff with a machine type
\* and metadata that CheckChanges let through, updated the metadata and ended.
C15_Witness ==
  \E p \in Passes :
    /\ pc[p] = "Done"
    /\ getResp[p].status = "ok"
    /\ ~IsNil(DiffOf(p).MachineType)
    /\ log[p][1] = "Instances.Get"
    /\ log[p][Len(log[p])] = "Instances.SetMetadata"
    /\ Count(log[p], "Instances.SetMetadata") = 1
    /\ lastStatus[p] = "DONE"

\* Pass p was dispatched to RenderTerraform, which has ended.
Rendered(p) == target = "terraform" /\ pc[p] \in {"Done", "Crashed", "Exited"}

\* C16: a pass dispatched to RenderTerraform has issued no Insert, no
\* SetMetadata and no status query and started no operation, and its changes
\* are the diff it was called with; the step of RenderTerraform leaves the
\* backend's instance, disks and operations and the diff as they were.
C16_TerraformFrame ==
  /\ [](\A p \in Passes :
         Rendered(p) =>
           /\ \A k \in DOMAIN log[p] : log[p][k] \notin Writes
           /\ IsNil(inserted[p]) /\ IsNil(metadataSent[p])
           /\ polls[p] = 0 /\ lastStatus[p] = "" /\ waitResult[p] = NoWait
           /\ gceOps[p] = NoOperation
           /\ changesOf[p] = DiffOf(p))
  /\ [][\A p \in Passes :
          (target = "terraform" /\ pc[p] = "Dispatch" /\ pc'[p] # "Dispatch") =>
            (UNCHANGED backendVars /\ changesOf' = changesOf)]_vars

\* C16 witness: RenderTerraform rendered the template of an instance that
\* exists on the backend and whose diff holds metadata; the backend still has
\* the metadata and fingerprint it had.
C16_Witness ==
  \E p \in Passes :
    /\ Rendered(p)
    /\ ~IsNil(rendered[p])
    /\ result[p] = NoError
    /\ ~IsNil(actualOf[p])
    /\ ~IsNil(changesOf[p].Metadata)
    /\ gceInstance = Some(LiveInstance)
    /\ log[p][Len(log[p])] = "TerraformTarget.RenderResource"

\* C17: once the operation of a waiting pass is DONE, waitCompletion eventually
\* returns; and waitCompletion returns only on a status DONE or on a failed
\* status query: while the operation is not DONE the pass stays in its wait.
C17_WaitTermination ==
  /\ \A p \in Passes :
       (pc[p] = "Wait" /\ gceOps[p].Status = "DONE") ~> (waitResult[p].state = "returned")
  /\ [](\A p \in Passes :
         /\ (waitResult[p].state = "returned" /\ lastStatus[p] # "error")
              => lastStatus[p] = "DONE"
         /\ (~IsNil(metadataSent[p]) /\ Accepted(p) /\ lastStatus[p] \notin {"DONE", "error"})
              => pc[p] = "Wait")

\* The referenced IP address of e has no value yet.
Unresolved(e) == ~IsNil(e.IPAddress) /\ IsNil(Val(e.IPAddress).Address)

\* A metadata content source of e cannot be rendered.
Unrenderable(e) == \E kv \in Entries(e.Metadata) : kv[2].kind = "broken"

\* C18: when the desired instance cannot be mapped (its IP address has no
\* value yet, or a metadata source cannot be rendered), RenderGCE returns that
\* error of mapToGCE, with or without an actual, having issued no Insert, no
\* SetMetadata and no status query: the calls of the pass are those of Find.
C18_MapFailureNoCall ==
  \A p \in Passes :
    ( /\ Entered(p)
      /\ ImageSpecOK(Val(desired[p].Image))
      /\ Unresolved(desired[p]) \/ Unrenderable(desired[p]) ) =>
      /\ pc[p] = "Done"
      /\ result[p] = IF Unresolved(desired[p])
                        THEN <<"instance IP address has not yet been created">>
                        ELSE <<"error rendering Instance metadata">>
      /\ \A k \in DOMAIN log[p] : log[p][k] \notin Writes
      /\ FindQueries(log[p]) = log[p]
      /\ IsNil(payload[p]) /\ IsNil(inserted[p]) /\ IsNil(metadataSent[p])
      /\ polls[p] = 0 /\ gceOps[p] = NoOperation
      /\ changesOf[p] = DiffOf(p)

\* C18 witness: RenderGCE was called with an actual and a desired instance
\* whose IP address is not yet created, and returned the error of mapToGCE.
C18_Witness ==
  \E p \in Passes :
    /\ Entered(p)
    /\ ~IsNil(actualOf[p])
    /\ Unresolved(desired[p])
    /\ ~IsNil(changesOf[p].IPAddress)
    /\ pc[p] = "Done"
    /\ result[p] = <<"instance IP address has not yet been created">>

\* The metadata update of pass p failed: its submission was rejected, a status
\* query failed, or the operation ended with errors.
UpdateFailed(p) ==
  /\ ~IsNil(metadataSent[p])
  /\ \/ Rejected(p)
     \/ lastStatus[p] = "error"
     \/ lastStatus[p] = "DONE" /\ Len(ErrorList(gceOps[p])) > 0

\* C19: when the metadata update of a pass failed, RenderGCE has returned the
\* metadata-update error, changes.Metadata is still populated (the diff is as
\* it was passed in), and the pass makes no further backend call: after a
\* rejected submission no status query, after a failed wait nothing more.
C19_FailedUpdate ==
  /\ [](\A p \in Passes :
         UpdateFailed(p) =>
           /\ pc[p] = "Done"
           /\ result[p] # NoError
           /\ result[p][1] = "error setting metadata on instance"
           /\ ~IsNil(changesOf[p].Metadata)
           /\ changesOf[p] = DiffOf(p)
           /\ Count(log[p], "Instances.SetMetadata") = 1
           /\ log[p][Len(log[p])] = "Instances.SetMetadata"
           /\ Rejected(p) => (polls[p] = 0 /\ lastStatus[p] = ""))
  /\ [][\A p \in Passes :
          UpdateFailed(p) =>
            /\ log'[p] = log[p]
            /\ polls'[p] = polls[p] /\ pollTick'[p] = pollTick[p]
            /\ lastStatus'[p] = lastStatus[p]
            /\ metadataSent'[p] = metadataSent[p]
            /\ changesOf'[p] = changesOf[p]]_vars

\* C19 witness: the operation of a metadata update ended with an error;
\* RenderGCE returned it and left the metadata in the diff.
C19_Witness ==
  \E p \in Passes :
    /\ ~IsNil(metadataSent[p])
    /\ lastStatus[p] = "DONE"
    /\ pc[p] = "Done"
    /\ result[p] = <<"error setting metadata on instance", "operation failed", "m1">>
    /\ ~IsNil(changesOf[p].Metadata)

\* C20: on every input the switch of expandScopeAlias and the table lookup of
\* scopeToLongForm return the same string, and a mnemonic that expandScopeAlias
\* expanded (as mapToGCE does) comes back from scopeToShortForm (as in Find)
\* as that mnemonic.
C20_ExpansionsAgree ==
  fnArg.kind = "scope" =>
    \A k \in DOMAIN fnTrace :
      /\ fnTrace[k].fn = "expandScopeAlias" => fnTrace[k].ret = scopeToLongForm(ScopeArg(k))
      /\ fnTrace[k].fn = "scopeToLongForm" => fnTrace[k].ret = expandScopeAlias(ScopeArg(k))
      /\ ( /\ k >= 2
           /\ fnTrace[k].fn = "scopeToShortForm"
           /\ fnTrace[k - 1].fn = "expandScopeAlias"
           /\ ScopeArg(k - 1) \in Mnemonics ) =>
           /\ fnTrace[k].ret = ScopeArg(k - 1)
           /\ fnTrace[k - 1].ret \in URIs

\* C20 witness: expandScopeAlias expanded "logging-write" to the URI the table
\* holds for it, and scopeToShortForm returned "logging-write" for that URI.
C20_Witness ==
  /\ fnArg = [kind |-> "scope", s |-> "logging-write"]
  /\ fnTrace =
       << [fn |-> "expandScopeAlias", ret |-> "https://www.googleapis.com/auth/logging.write"],
          [fn |-> "scopeToShortForm", ret |-> "logging-write"] >>
  /\ scopeToLongForm("logging-write") = fnTrace[1].ret

====
